---- MODULE Spec2Model ----
\* Model of net/instaweb/rewriter/critical_images_finder.cc:
\* the property-cache codec for critical image sets, the reader
\* (ExtractCriticalImagesSet), the writer (UpdateCriticalImagesCacheEntry)
\* and the per-driver memoisation (UpdateCriticalImagesSetInDriver).
EXTENDS Integers, Sequences, FiniteSets, TLC

\* ---------------------------------------------------------------- bounds
MaxLen == 2          \* longest identifier of a codec run
MaxSetSize == 2      \* largest set of a codec run
MaxRawLen == 3       \* longest foreign value of a codec run
MaxTime == 2         \* one request: the clock runs 0..MaxTime
MaxTtl == 1          \* one request: the configured TTL is in 0..MaxTtl
ConcMaxTime == 1     \* concurrent requests: the clock runs 0..ConcMaxTime
ConcMaxTtl == 0      \* concurrent requests: the configured TTL is in 0..ConcMaxTtl

\* ---------------------------------------------------------------- strings
\* A GoogleString is a sequence of character codes.
kImageUrlSeparator == 10
Chars == {kImageUrlSeparator, 97, 98}

RECURSIVE StrOfLen(_)
StrOfLen(n) ==
  IF n = 0 THEN {<<>>}
  ELSE {Append(s, c) : s \in StrOfLen(n - 1), c \in Chars}

StrUpTo(n) == UNION {StrOfLen(k) : k \in 0..n}

\* std::string operator< : lexicographic on character codes.
RECURSIVE StrLess(_, _)
StrLess(s, t) ==
  IF t = <<>> THEN FALSE
  ELSE IF s = <<>> THEN TRUE
  ELSE IF Head(s) < Head(t) THEN TRUE
  ELSE IF Head(s) > Head(t) THEN FALSE
  ELSE StrLess(Tail(s), Tail(t))

\* StringSet::begin(): the least element of a std::set<GoogleString>.
SetBegin(S) == CHOOSE x \in S : \A y \in S \ {x} : StrLess(x, y)

\* The loop of FormatSetForPropertyCache: StrAppend(buf, separator, *it)
\* for every further element in iteration order.
RECURSIVE AppendRest(_, _)
AppendRest(rest, buf) ==
  IF rest = {} THEN buf
  ELSE LET it == SetBegin(rest)
       IN AppendRest(rest \ {it}, buf \o <<kImageUrlSeparator>> \o it)

\* Mutant: the elements are appended without the separator.
RECURSIVE AppendRest_NoSep(_, _)
AppendRest_NoSep(rest, buf) ==
  IF rest = {} THEN buf
  ELSE LET it == SetBegin(rest) IN AppendRest_NoSep(rest \ {it}, buf \o it)

FormatSetForPropertyCache_NoSep(critical_images, buf) ==
  LET b1 == AppendRest_NoSep(critical_images, buf)
  IN IF b1 = <<>> THEN <<kImageUrlSeparator>> ELSE b1

\* Mutant: the empty buffer is stored as it is (no sentinel).
FormatSetForPropertyCache_NoSentinel(critical_images, buf) ==
  IF critical_images # {}
  THEN LET first == SetBegin(critical_images)
       IN AppendRest(critical_images \ {first}, buf \o first)
  ELSE buf

FormatSetForPropertyCache(critical_images, buf) ==
  LET b1 == IF critical_images # {}
            THEN LET first == SetBegin(critical_images)
                 IN AppendRest(critical_images \ {first}, buf \o first)
            ELSE buf
  IN IF b1 = <<>> THEN <<kImageUrlSeparator>> ELSE b1

\* SplitStringPieceToVector(sp, separator, &vector, omit_empty_strings):
\* scans sp, cutting a component at every separator; with omit_empty_strings
\* a component of length 0 is not pushed.
RECURSIVE SplitScan(_, _, _, _)
SplitScan(rest, cur, components, omit_empty_strings) ==
  LET pushed == IF omit_empty_strings /\ cur = <<>> THEN components
                ELSE Append(components, cur)
  IN IF rest = <<>> THEN pushed
     ELSE IF Head(rest) = kImageUrlSeparator
          THEN SplitScan(Tail(rest), <<>>, pushed, omit_empty_strings)
          ELSE SplitScan(Tail(rest), Append(cur, Head(rest)), components,
                         omit_empty_strings)

SplitStringPieceToVector(sp, omit_empty_strings) ==
  SplitScan(sp, <<>>, <<>>, omit_empty_strings)

\* Lines 255-267 of ExtractCriticalImagesSet: split the value and insert every
\* component into *critical_images.
InsertTokens(critical_images, value) ==
  LET critical_images_vector == SplitStringPieceToVector(value, TRUE)
  IN critical_images \cup
       {critical_images_vector[i] : i \in 1..Len(critical_images_vector)}

\* ---------------------------------------------------------------- state
Drivers == {"d1", "d2"}
Urls == {<<97>>, <<98>>}
\* The sets upstream logic hands to the setters and to the writer.
InputSets == {{}, {<<97>>}, {<<97>>, <<98>>}}
ConcInputSets == {{}, {<<97>>}}
\* A StringSet* is NULL or points to a set: {} is NULL, {S} points to S.
NULL == {}
Ptr(S) == {S}
Deref(p) == CHOOSE S \in p : TRUE
PtrsTo(Sets) == {NULL} \cup {Ptr(S) : S \in Sets}
\* The sets of a direct call of UpdateCriticalImagesCacheEntry, and the sets
\* the setters are given when two requests run concurrently.
DirectPtrs == {NULL, Ptr({<<97>>})}

kCriticalImagesPropertyName == "critical_images"
kCssCriticalImagesPropertyName == "css_critical_images"
PropertyNames == {kCriticalImagesPropertyName, kCssCriticalImagesPropertyName}

VARIABLES
  now,             \* the timer the property cache stamps values with
  cache_ttl_ms,    \* options()->finder_properties_cache_expiration_time_ms()
  dcheck_is_on,    \* the build: DCHECK compiled in (debug) or out (release)
  crashed,         \* "no", or how the process died
  cohort_present,  \* GetCohort(GetCriticalImagesCohort()) != NULL
  pcache,          \* the page's two PropertyValues
  info,            \* driver->critical_images_info()
  flushing_early,  \* driver->flushing_early()
  property_page,   \* driver->property_page() != NULL
  statistics,      \* the three Variables of the finder
  lookups,         \* history: page->GetProperty calls of the read path
  installs,        \* history: driver->set_critical_images_info calls
  c_set,           \* codec run: the set to serialize
  c_out,           \* codec run: the set read back
  c_pc             \* codec run: position

vars == <<now, cache_ttl_ms, dcheck_is_on, crashed, cohort_present, pcache,
          info, flushing_early, property_page, statistics, lookups,
          installs, c_set, c_out, c_pc>>

\* A PropertyValue without a value.
NoValue == [has_value |-> FALSE, value |-> <<>>, write_timestamp_ms |-> 0]

\* new CriticalImagesInfo: both scoped_ptr members are NULL.
CriticalImagesInfo == [html_critical_images |-> NULL, css_critical_images |-> NULL]

\* driver->critical_images_info() == NULL
NoInfo == [set |-> FALSE, html_critical_images |-> NULL, css_critical_images |-> NULL]
InfoOf(i) == [set |-> TRUE, html_critical_images |-> i.html_critical_images,
              css_critical_images |-> i.css_critical_images]

ZeroStats == [critical_images_valid_count |-> 0,
              critical_images_expired_count |-> 0,
              critical_images_not_found_count |-> 0]

\* PropertyCache::IsExpired(property_value, ttl_ms)
IsExpired(property_value, ttl_ms) ==
  ttl_ms < now - property_value.write_timestamp_ms

\* PropertyCache::UpdateValue(buf, property_value)
UpdateValue(buf, property_value) ==
  [has_value |-> TRUE, value |-> buf, write_timestamp_ms |-> now]

\* ---------------------------------------------------------------- reader
\* Variable::Add(1), done only when track_stats holds.
Add1(stats, name, track_stats) ==
  IF track_stats THEN [stats EXCEPT ![name] = @ + 1] ELSE stats

Extracted(c, p, st) == [crash |-> c, critical_images |-> p, stats |-> st]

\* Mutant: the statistics are tracked although the driver is flushing early.
ExtractCriticalImagesSet_CountEarly(d, property_value, track_stats_in, critical_images, stats) ==
  LET track_stats == track_stats_in
  IN IF dcheck_is_on /\ critical_images = NULL
     THEN Extracted("dcheck", critical_images, stats)
     ELSE IF property_value.has_value
     THEN IF ~IsExpired(property_value, cache_ttl_ms)
          THEN LET critical_images_vector ==
                     SplitStringPieceToVector(property_value.value, TRUE)
               IN IF critical_images = NULL
                  THEN IF Len(critical_images_vector) > 0
                       THEN Extracted("segv", critical_images, stats)
                       ELSE Extracted("no", critical_images,
                              Add1(stats, "critical_images_valid_count", track_stats))
                  ELSE Extracted("no",
                         Ptr(InsertTokens(Deref(critical_images), property_value.value)),
                         Add1(stats, "critical_images_valid_count", track_stats))
          ELSE Extracted("no", critical_images,
                 Add1(stats, "critical_images_expired_count", track_stats))
     ELSE Extracted("no", critical_images,
            Add1(stats, "critical_images_not_found_count", track_stats))

\* ExtractCriticalImagesSet(driver, property_value, track_stats, critical_images).
\* critical_images is the pointer the caller passes; the result holds what it
\* points to afterwards, the statistics, and whether the process died:
\* "dcheck" when the DCHECK of line 242 fails in a build that has it,
\* "segv" when line 266 inserts through a NULL pointer.
ExtractCriticalImagesSet(d, property_value, track_stats_in, critical_images, stats) ==
  LET track_stats == track_stats_in /\ ~flushing_early[d]
  IN IF dcheck_is_on /\ critical_images = NULL
     THEN Extracted("dcheck", critical_images, stats)
     ELSE IF property_value.has_value
     THEN IF ~IsExpired(property_value, cache_ttl_ms)
          THEN LET critical_images_vector ==
                     SplitStringPieceToVector(property_value.value, TRUE)
               IN IF critical_images = NULL
                  THEN IF Len(critical_images_vector) > 0
                       THEN Extracted("segv", critical_images, stats)
                       ELSE Extracted("no", critical_images,
                              Add1(stats, "critical_images_valid_count", track_stats))
                  ELSE Extracted("no",
                         Ptr(InsertTokens(Deref(critical_images), property_value.value)),
                         Add1(stats, "critical_images_valid_count", track_stats))
          ELSE Extracted("no", critical_images,
                 Add1(stats, "critical_images_expired_count", track_stats))
     ELSE Extracted("no", critical_images,
            Add1(stats, "critical_images_not_found_count", track_stats))

Updated(c, i, st, l, k) ==
  [crash |-> c, info |-> i, stats |-> st, lookups |-> l, installs |-> k]

\* Mutant: without page or cohort no info is installed, so a later query
\* tries again.
CopyFromPropertyCache_NoInstall(d) ==
  LET fresh == CriticalImagesInfo
      h == ExtractCriticalImagesSet(d, pcache[kCriticalImagesPropertyName], TRUE,
                                    fresh.html_critical_images, statistics)
      c == ExtractCriticalImagesSet(d, pcache[kCssCriticalImagesPropertyName], TRUE,
                                    fresh.css_critical_images, h.stats)
  IN IF property_page[d] /\ cohort_present
     THEN IF h.crash # "no"
          THEN Updated(h.crash, info[d], h.stats,
                 [lookups[d] EXCEPT ![kCriticalImagesPropertyName] = @ + 1], 0)
          ELSE IF c.crash # "no"
          THEN Updated(c.crash, info[d], c.stats,
                 [n \in PropertyNames |-> lookups[d][n] + 1], 0)
          ELSE Updated("no",
                 InfoOf([html_critical_images |-> h.critical_images,
                         css_critical_images |-> c.critical_images]),
                 c.stats, [n \in PropertyNames |-> lookups[d][n] + 1], 1)
     ELSE Updated("no", info[d], statistics, lookups[d], 0)

\* Lines 163-180 of UpdateCriticalImagesSetInDriver: a new CriticalImagesInfo
\* is filled from the two properties and installed in the driver.
CopyFromPropertyCache(d) ==
  LET fresh == CriticalImagesInfo
      h == ExtractCriticalImagesSet(d, pcache[kCriticalImagesPropertyName], TRUE,
                                    fresh.html_critical_images, statistics)
      c == ExtractCriticalImagesSet(d, pcache[kCssCriticalImagesPropertyName], TRUE,
                                    fresh.css_critical_images, h.stats)
  IN IF property_page[d] /\ cohort_present
     THEN IF h.crash # "no"
          THEN Updated(h.crash, info[d], h.stats,
                 [lookups[d] EXCEPT ![kCriticalImagesPropertyName] = @ + 1], 0)
          ELSE IF c.crash # "no"
          THEN Updated(c.crash, info[d], c.stats,
                 [n \in PropertyNames |-> lookups[d][n] + 1], 0)
          ELSE Updated("no",
                 InfoOf([html_critical_images |-> h.critical_images,
                         css_critical_images |-> c.critical_images]),
                 c.stats, [n \in PropertyNames |-> lookups[d][n] + 1], 1)
     ELSE Updated("no", InfoOf(fresh), statistics, lookups[d], 1)

\* Mutant: the store is read again although the driver already has its info.
UpdateCriticalImagesSetInDriver_NoMemo(d) == CopyFromPropertyCache(d)

\* UpdateCriticalImagesSetInDriver(driver): what the call leaves behind.
UpdateCriticalImagesSetInDriver(d) ==
  IF info[d].set
  THEN Updated("no", info[d], statistics, lookups[d], 0)
  ELSE CopyFromPropertyCache(d)

\* ---------------------------------------------------------------- queries
Queried(u, r) == [u |-> u, result |-> r]

GetHtmlCriticalImages(d) ==
  LET u == UpdateCriticalImagesSetInDriver(d)
  IN Queried(u, IF ~u.info.set THEN NULL ELSE u.info.html_critical_images)

GetCssCriticalImages(d) ==
  LET u == UpdateCriticalImagesSetInDriver(d)
  IN Queried(u, IF ~u.info.set THEN NULL ELSE u.info.css_critical_images)

\* Mutant: an unknown set counts as "every image is critical".
IsHtmlCriticalImage_NullIsTrue(image_url, d) ==
  LET critical_images_set == GetHtmlCriticalImages(d)
  IN Queried(critical_images_set.u,
             critical_images_set.result = NULL
               \/ image_url \in Deref(critical_images_set.result))

IsHtmlCriticalImage(image_url, d) ==
  LET critical_images_set == GetHtmlCriticalImages(d)
  IN Queried(critical_images_set.u,
             critical_images_set.result # NULL
               /\ image_url \in Deref(critical_images_set.result))

IsCssCriticalImage(image_url, d) ==
  LET critical_images_set == GetCssCriticalImages(d)
  IN Queried(critical_images_set.u,
             critical_images_set.result # NULL
               /\ image_url \in Deref(critical_images_set.result))

\* The state a query leaves: the driver's info, the statistics, and the
\* process state when the read path died before installing the info.
\* Mutant: the info is kept in the finder, shared by all drivers.
Commit_Shared(d, u) ==
  /\ crashed' = u.crash
  /\ info' = [e \in Drivers |-> u.info]
  /\ statistics' = u.stats
  /\ lookups' = [lookups EXCEPT ![d] = u.lookups]
  /\ installs' = [installs EXCEPT ![d] = @ + u.installs]
  /\ UNCHANGED <<now, cache_ttl_ms, dcheck_is_on, cohort_present, pcache,
                 flushing_early, property_page, c_set, c_out, c_pc>>

Commit(d, u) ==
  /\ crashed' = u.crash
  /\ info' = [info EXCEPT ![d] = u.info]
  /\ statistics' = u.stats
  /\ lookups' = [lookups EXCEPT ![d] = u.lookups]
  /\ installs' = [installs EXCEPT ![d] = @ + u.installs]
  /\ UNCHANGED <<now, cache_ttl_ms, dcheck_is_on, cohort_present, pcache,
                 flushing_early, property_page, c_set, c_out, c_pc>>

CallIsHtmlCriticalImage(d, image_url) ==
  /\ crashed = "no"
  /\ LET q == IsHtmlCriticalImage(image_url, d)
     IN Commit(d, q.u)

CallIsCssCriticalImage(d, image_url) ==
  /\ crashed = "no"
  /\ LET q == IsCssCriticalImage(image_url, d)
     IN Commit(d, q.u)

CallGetHtmlCriticalImages(d) ==
  /\ crashed = "no"
  /\ LET q == GetHtmlCriticalImages(d)
     IN Commit(d, q.u)

CallGetCssCriticalImages(d) ==
  /\ crashed = "no"
  /\ LET q == GetCssCriticalImages(d)
     IN Commit(d, q.u)

\* ---------------------------------------------------------------- setters
\* The info the setters work on: the driver's, or a new one.
DriverInfo(d) == IF info[d].set THEN info[d] ELSE InfoOf(CriticalImagesInfo)

\* Mutant: the setter installs a new info and so resets the other side.
SetCssCriticalImages_Reset(d, critical_images) ==
  /\ crashed = "no"
  /\ info' = [info EXCEPT ![d] =
               [InfoOf(CriticalImagesInfo) EXCEPT !.css_critical_images = critical_images]]
  /\ installs' = [installs EXCEPT ![d] = @ + 1]
  /\ UNCHANGED <<now, cache_ttl_ms, dcheck_is_on, crashed, cohort_present, pcache,
                 flushing_early, property_page, statistics, lookups,
                 c_set, c_out, c_pc>>

\* Mutant: the setter fills the driver's info from the property cache first.
SetHtmlCriticalImages_ReadsStore(d, critical_images) ==
  /\ crashed = "no"
  /\ LET u == UpdateCriticalImagesSetInDriver(d)
     IN /\ crashed' = u.crash
        /\ info' = [info EXCEPT ![d] =
                      IF u.crash # "no" THEN info[d]
                      ELSE [u.info EXCEPT !.html_critical_images = critical_images]]
        /\ statistics' = u.stats
        /\ lookups' = [lookups EXCEPT ![d] = u.lookups]
        /\ installs' = [installs EXCEPT ![d] = @ + u.installs]
  /\ UNCHANGED <<now, cache_ttl_ms, dcheck_is_on, cohort_present, pcache,
                 flushing_early, property_page, c_set, c_out, c_pc>>

SetHtmlCriticalImages(d, critical_images) ==
  /\ crashed = "no"
  /\ info' = [info EXCEPT ![d] =
               [DriverInfo(d) EXCEPT !.html_critical_images = critical_images]]
  /\ installs' = [installs EXCEPT ![d] = @ + (IF info[d].set THEN 0 ELSE 1)]
  /\ UNCHANGED <<now, cache_ttl_ms, dcheck_is_on, crashed, cohort_present, pcache,
                 flushing_early, property_page, statistics, lookups,
                 c_set, c_out, c_pc>>

SetCssCriticalImages(d, critical_images) ==
  /\ crashed = "no"
  /\ info' = [info EXCEPT ![d] =
               [DriverInfo(d) EXCEPT !.css_critical_images = critical_images]]
  /\ installs' = [installs EXCEPT ![d] = @ + (IF info[d].set THEN 0 ELSE 1)]
  /\ UNCHANGED <<now, cache_ttl_ms, dcheck_is_on, crashed, cohort_present, pcache,
                 flushing_early, property_page, statistics, lookups,
                 c_set, c_out, c_pc>>

\* ---------------------------------------------------------------- writer
Written(pc, r) == [pcache |-> pc, result |-> r]

\* Mutant: "updated" is only set by the CSS branch.
UpdateCriticalImagesCacheEntry_CssOnly(page, page_property_cache, critical_images_set, css_critical_images_set) ==
  IF page_property_cache /\ page /\ cohort_present
  THEN LET p1 == IF critical_images_set # NULL
                 THEN [pcache EXCEPT ![kCriticalImagesPropertyName] =
                         UpdateValue(FormatSetForPropertyCache(
                                       Deref(critical_images_set), <<>>), @)]
                 ELSE pcache
           p2 == IF css_critical_images_set # NULL
                 THEN [p1 EXCEPT ![kCssCriticalImagesPropertyName] =
                         UpdateValue(FormatSetForPropertyCache(
                                       Deref(css_critical_images_set), <<>>), @)]
                 ELSE p1
       IN Written(p2, css_critical_images_set # NULL)
  ELSE Written(pcache, FALSE)

\* Mutant: a side that is not given is stored as the empty set.
UpdateCriticalImagesCacheEntry_ClearsOther(page, page_property_cache, critical_images_set, css_critical_images_set) ==
  IF page_property_cache /\ page /\ cohort_present
       /\ (critical_images_set # NULL \/ css_critical_images_set # NULL)
  THEN Written(
         [n \in PropertyNames |->
            LET given == IF n = kCriticalImagesPropertyName
                         THEN critical_images_set ELSE css_critical_images_set
            IN UpdateValue(FormatSetForPropertyCache(
                             IF given = NULL THEN {} ELSE Deref(given), <<>>),
                           pcache[n])],
         TRUE)
  ELSE Written(pcache, FALSE)

\* UpdateCriticalImagesCacheEntry(page, page_property_cache,
\*                                critical_images_set, css_critical_images_set):
\* the page's properties afterwards and the returned bool.
UpdateCriticalImagesCacheEntry(page, page_property_cache, critical_images_set, css_critical_images_set) ==
  IF page_property_cache /\ page
  THEN IF cohort_present
       THEN LET p1 == IF critical_images_set # NULL
                      THEN [pcache EXCEPT ![kCriticalImagesPropertyName] =
                              UpdateValue(FormatSetForPropertyCache(
                                            Deref(critical_images_set), <<>>), @)]
                      ELSE pcache
                u1 == critical_images_set # NULL
                p2 == IF css_critical_images_set # NULL
                      THEN [p1 EXCEPT ![kCssCriticalImagesPropertyName] =
                              UpdateValue(FormatSetForPropertyCache(
                                            Deref(css_critical_images_set), <<>>), @)]
                      ELSE p1
                u2 == u1 \/ css_critical_images_set # NULL
            IN Written(p2, u2)
       ELSE Written(pcache, FALSE)
  ELSE Written(pcache, FALSE)

\* A direct call of UpdateCriticalImagesCacheEntry.
CallUpdateCriticalImagesCacheEntry(page, page_property_cache, critical_images_set, css_critical_images_set) ==
  /\ crashed = "no"
  /\ LET w == UpdateCriticalImagesCacheEntry(page, page_property_cache,
                 critical_images_set, css_critical_images_set)
     IN pcache' = w.pcache
  /\ UNCHANGED <<now, cache_ttl_ms, dcheck_is_on, crashed, cohort_present, info,
                 flushing_early, property_page, statistics, lookups, installs>>

\* Mutant: writing the cache entry drops the driver's info.
UpdateCriticalImagesCacheEntryFromDriver_DropsInfo(d, critical_images_set, css_critical_images_set) ==
  /\ crashed = "no"
  /\ LET w == UpdateCriticalImagesCacheEntry(property_page[d], TRUE,
                 critical_images_set, css_critical_images_set)
     IN pcache' = w.pcache
  /\ info' = [info EXCEPT ![d] = NoInfo]
  /\ UNCHANGED <<now, cache_ttl_ms, dcheck_is_on, crashed, cohort_present,
                 flushing_early, property_page, statistics, lookups, installs,
                 c_set, c_out, c_pc>>

\* Mutant: the written sets are also stored in the driver's info.
UpdateCriticalImagesCacheEntryFromDriver_StoresInInfo(d, critical_images_set, css_critical_images_set) ==
  /\ crashed = "no"
  /\ LET w == UpdateCriticalImagesCacheEntry(property_page[d], TRUE,
                 critical_images_set, css_critical_images_set)
     IN pcache' = w.pcache
  /\ info' = [info EXCEPT ![d] =
               [set |-> TRUE, html_critical_images |-> critical_images_set,
                css_critical_images |-> css_critical_images_set]]
  /\ UNCHANGED <<now, cache_ttl_ms, dcheck_is_on, crashed, cohort_present,
                 flushing_early, property_page, statistics, lookups, installs,
                 c_set, c_out, c_pc>>

\* UpdateCriticalImagesCacheEntryFromDriver(driver, critical_images_set,
\*                                          css_critical_images_set)
UpdateCriticalImagesCacheEntryFromDriver(d, critical_images_set, css_critical_images_set) ==
  /\ crashed = "no"
  /\ LET w == UpdateCriticalImagesCacheEntry(property_page[d], TRUE,
                 critical_images_set, css_critical_images_set)
     IN pcache' = w.pcache
  /\ UNCHANGED <<now, cache_ttl_ms, dcheck_is_on, crashed, cohort_present, info,
                 flushing_early, property_page, statistics, lookups, installs,
                 c_set, c_out, c_pc>>

\* ---------------------------------------------------------------- environment
\* The timer advances.
Tick(maxTime) ==
  /\ crashed = "no"
  /\ now < maxTime
  /\ now' = now + 1
  /\ UNCHANGED <<cache_ttl_ms, dcheck_is_on, crashed, cohort_present, pcache, info,
                 flushing_early, property_page, statistics, lookups, installs,
                 c_set, c_out, c_pc>>

\* RewriteDriver::set_property_page: the page becomes available to the driver.
SetPropertyPage(d) ==
  /\ crashed = "no"
  /\ ~property_page[d]
  /\ property_page' = [property_page EXCEPT ![d] = TRUE]
  /\ UNCHANGED <<now, cache_ttl_ms, dcheck_is_on, crashed, cohort_present, pcache,
                 info, flushing_early, statistics, lookups, installs, c_set, c_out, c_pc>>

\* PropertyCache::AddCohort: the critical images cohort becomes resolvable.
AddCohort ==
  /\ crashed = "no"
  /\ ~cohort_present
  /\ cohort_present' = TRUE
  /\ UNCHANGED <<now, cache_ttl_ms, dcheck_is_on, crashed, pcache, info,
                 flushing_early, property_page, statistics, lookups, installs,
                 c_set, c_out, c_pc>>

\* ---------------------------------------------------------------- Spec
\* The state after construction: no driver has an info, nothing is stored,
\* the counters are zero. D is the set of drivers that serve a request.
InitFor(D, maxTtl) ==
  /\ now = 0
  /\ cache_ttl_ms \in 0..maxTtl
  /\ dcheck_is_on \in BOOLEAN
  /\ crashed = "no"
  /\ cohort_present \in BOOLEAN
  /\ pcache = [n \in PropertyNames |-> NoValue]
  /\ info = [d \in Drivers |-> NoInfo]
  /\ flushing_early \in [Drivers -> BOOLEAN]
  /\ property_page \in [Drivers -> BOOLEAN]
  /\ \A d \in Drivers \ D : ~flushing_early[d] /\ ~property_page[d]
  /\ statistics = ZeroStats
  /\ lookups = [d \in Drivers |-> [n \in PropertyNames |-> 0]]
  /\ installs = [d \in Drivers |-> 0]
  /\ c_set = {}
  /\ c_out = {}
  /\ c_pc = "idle"

\* The calls of the drivers in D: the setters are given sets of S, the writer
\* called from a driver sets of P.
NextFor(D, S, P, maxTime) ==
  \/ \E d \in D, image_url \in Urls : CallIsHtmlCriticalImage(d, image_url)
  \/ \E d \in D, image_url \in Urls : CallIsCssCriticalImage(d, image_url)
  \/ \E d \in D : CallGetHtmlCriticalImages(d)
  \/ \E d \in D : CallGetCssCriticalImages(d)
  \/ \E d \in D, p \in S : SetHtmlCriticalImages(d, p)
  \/ \E d \in D, p \in S : SetCssCriticalImages(d, p)
  \/ \E page \in BOOLEAN, cache \in BOOLEAN, h \in DirectPtrs, c \in DirectPtrs :
        CallUpdateCriticalImagesCacheEntry(page, cache, h, c)
           /\ UNCHANGED <<c_set, c_out, c_pc>>
  \/ \E d \in D, h \in P, c \in P :
        UpdateCriticalImagesCacheEntryFromDriver(d, h, c)
  \/ Tick(maxTime)
  \/ \E d \in D : SetPropertyPage(d)
  \/ AddCohort

\* Two requests served concurrently by the one finder.
Init == InitFor(Drivers, ConcMaxTtl)
Next == NextFor(Drivers, DirectPtrs, PtrsTo(ConcInputSets), ConcMaxTime)
Spec == Init /\ [][Next]_vars

\* One request.
RequestInit == InitFor({"d1"}, MaxTtl)
RequestNext == NextFor({"d1"}, PtrsTo(InputSets), PtrsTo(InputSets), MaxTime)
RequestSpec == RequestInit /\ [][RequestNext]_vars

\* ---------------------------------------------------------------- codec runs
\* A codec run stores one set (or one foreign value) in a property and
\* extracts it again into an empty set.
RECURSIVE SetsUpTo(_, _)
SetsUpTo(U, n) ==
  IF n = 0 THEN {{}}
  ELSE LET smaller == SetsUpTo(U, n - 1)
       IN smaller \cup {S \cup {x} : S \in smaller, x \in U}

CodecSets == SetsUpTo(StrUpTo(MaxLen), MaxSetSize)
RawValues == StrUpTo(MaxRawLen) \ {<<>>}

CodecInit ==
  /\ now = 0
  /\ cache_ttl_ms = 0
  /\ dcheck_is_on = TRUE
  /\ crashed = "no"
  /\ cohort_present = TRUE
  /\ pcache = [n \in PropertyNames |-> NoValue]
  /\ info = [d \in Drivers |-> NoInfo]
  /\ flushing_early = [d \in Drivers |-> FALSE]
  /\ property_page = [d \in Drivers |-> FALSE]
  /\ statistics = ZeroStats
  /\ lookups = [d \in Drivers |-> [n \in PropertyNames |-> 0]]
  /\ installs = [d \in Drivers |-> 0]
  /\ c_set \in CodecSets
  /\ c_out = {}
  /\ c_pc = "start"

\* The writer stores c_set, as the HTML set or as the CSS set.
CodecWrite ==
  /\ c_pc = "start"
  /\ \/ CallUpdateCriticalImagesCacheEntry(TRUE, TRUE, Ptr(c_set), NULL)
     \/ CallUpdateCriticalImagesCacheEntry(TRUE, TRUE, NULL, Ptr(c_set))
  /\ c_pc' = "written"
  /\ UNCHANGED <<c_set, c_out>>

\* Another writer of the property cache leaves a value of its own.
CodecForeign ==
  /\ c_pc = "start"
  /\ \E n \in PropertyNames, v \in RawValues :
        pcache' = [pcache EXCEPT ![n] = UpdateValue(v, @)]
  /\ c_pc' = "foreign"
  /\ UNCHANGED <<now, cache_ttl_ms, dcheck_is_on, crashed, cohort_present, info,
                 flushing_early, property_page, statistics, lookups, installs, c_set, c_out>>

\* The property that holds the value of this run.
CodecProperty == CHOOSE n \in PropertyNames : pcache[n].has_value

\* ExtractCriticalImagesSet is called with an empty set to fill.
CodecExtract ==
  /\ c_pc \in {"written", "foreign"}
  /\ LET e == ExtractCriticalImagesSet("d1", pcache[CodecProperty], FALSE,
                                       Ptr({}), statistics)
     IN /\ crashed' = e.crash
        /\ statistics' = e.stats
        /\ c_out' = Deref(e.critical_images)
  /\ c_pc' = IF c_pc = "written" THEN "extracted" ELSE "extracted_foreign"
  /\ UNCHANGED <<now, cache_ttl_ms, dcheck_is_on, cohort_present, pcache, info,
                 flushing_early, property_page, lookups, installs, c_set>>

CodecNext == CodecWrite \/ CodecForeign \/ CodecExtract
CodecSpec == CodecInit /\ [][CodecNext]_vars

\* ---------------------------------------------------------------- claims
HasSeparator(s) == \E i \in 1..Len(s) : s[i] = kImageUrlSeparator

\* C1 (as claimed): for every set S of identifiers without the separator,
\* extracting the value the writer stored for S yields exactly S.
C1_RoundTrip_AsClaimed ==
  (c_pc = "extracted" /\ \A s \in c_set : ~HasSeparator(s)) => c_out = c_set

\* C1 (amended): for every set S of identifiers that are non-empty and do not
\* contain the separator, extracting the value stored for S yields exactly S.
C1_RoundTrip ==
  (c_pc = "extracted" /\ \A s \in c_set : s # <<>> /\ ~HasSeparator(s))
     => c_out = c_set

C1_Witness ==
  /\ c_pc = "extracted"
  /\ Cardinality(c_set) = 2
  /\ \A s \in c_set : s # <<>> /\ ~HasSeparator(s)
  /\ c_out = c_set

\* C2: the serialized form is never the empty string, the empty set is stored
\* as exactly one separator, and every value the writer hands to the store is
\* non-empty.
C2_NeverEmpty ==
  /\ \A n \in PropertyNames : pcache[n].has_value => pcache[n].value # <<>>
  /\ c_pc = "written" =>
        /\ pcache[CodecProperty].value = FormatSetForPropertyCache(c_set, <<>>)
        /\ pcache[CodecProperty].value # <<>>
        /\ c_set = {} => pcache[CodecProperty].value = <<kImageUrlSeparator>>

C2_Witness ==
  /\ c_pc = "written"
  /\ c_set = {}
  /\ pcache[CodecProperty].value = <<kImageUrlSeparator>>

\* ------------------------------------------------ vocabulary of the claims
\* The sub-value of an info that belongs to a property.
SubValue(i, n) ==
  IF n = kCriticalImagesPropertyName THEN i.html_critical_images
  ELSE i.css_critical_images

\* The outcome the reader is specified to have for a property: absent, expired
\* (TTL < now - T) or valid.
Outcome(n) ==
  IF ~pcache[n].has_value THEN "not_found"
  ELSE IF cache_ttl_ms < now - pcache[n].write_timestamp_ms THEN "expired"
  ELSE "valid"

Count(o) == Cardinality({n \in PropertyNames : Outcome(n) = o})

\* A driver whose first query would be a counting lookup of both properties.
CountingFirstQuery(d) ==
  /\ crashed = "no"
  /\ ~info[d].set
  /\ property_page[d]
  /\ cohort_present
  /\ ~flushing_early[d]

\* The process died in the lookup of property n.
DiedIn(n) ==
  /\ crashed # "no"
  /\ \E d \in Drivers :
        /\ ~info[d].set
        /\ lookups[d][kCriticalImagesPropertyName] = 1
        /\ lookups[d][kCssCriticalImagesPropertyName] =
              (IF n = kCssCriticalImagesPropertyName THEN 1 ELSE 0)

\* C3 (as claimed): a present, unexpired value never produces a failure
\* outcome, whatever its content: the process never dies in the lookup of a
\* property that holds a valid value.
C3_NoFailureOnValidValue ==
  \A n \in PropertyNames : DiedIn(n) => Outcome(n) # "valid"

\* C4: within one request the store is looked up at most once per property,
\* and a query of a driver that has its info looks nothing up and counts
\* nothing.
C4_Memoization ==
  \A d \in Drivers :
    /\ \A n \in PropertyNames : lookups[d][n] <= 1
    /\ info[d].set =>
         LET u == UpdateCriticalImagesSetInDriver(d)
         IN /\ u.lookups = lookups[d]
            /\ u.stats = statistics
            /\ u.info = info[d]

C4_Witness ==
  /\ info["d1"].set
  /\ \A n \in PropertyNames : lookups["d1"][n] = 1
  /\ GetHtmlCriticalImages("d1").u.lookups = lookups["d1"]

\* C5: SetCssCriticalImages leaves the HTML sub-value of the driver's info as
\* it was, and SetHtmlCriticalImages leaves the CSS sub-value as it was.
C5_SideIndependence ==
  [][\A d \in Drivers, p \in PtrsTo(InputSets) :
       /\ \/ info'[d].html_critical_images = info[d].html_critical_images
          \/ ~SetCssCriticalImages(d, p)
       /\ \/ info'[d].css_critical_images = info[d].css_critical_images
          \/ ~SetHtmlCriticalImages(d, p)]_vars

C5_Witness ==
  /\ info["d1"].set
  /\ lookups["d1"][kCriticalImagesPropertyName] = 1
  /\ info["d1"].html_critical_images = Ptr({<<97>>})
  /\ info["d1"].css_critical_images = Ptr({<<97>>, <<98>>})

\* The set a stored value was written for.
WrittenSet(n) == CHOOSE H \in InputSets : FormatSetForPropertyCache(H, <<>>) = pcache[n].value

\* Driver d performs a query: a membership test or an accessor call.
QueryStep(d) ==
  \/ \E x \in Urls : CallIsHtmlCriticalImage(d, x)
  \/ \E x \in Urls : CallIsCssCriticalImage(d, x)
  \/ CallGetHtmlCriticalImages(d)
  \/ CallGetCssCriticalImages(d)

\* C6 (as claimed): after the writer stored Some(H) for HTML and nothing for
\* CSS, the first query of a request within the TTL leaves a snapshot with
\* HTML = H and CSS = None, so that is_html_critical(x) holds exactly for x in
\* H and is_css_critical(x) for no x.
C6_WriteThenRead ==
  [][\A d \in Drivers :
       ( /\ crashed = "no" /\ ~info[d].set /\ property_page[d] /\ cohort_present
         /\ Outcome(kCriticalImagesPropertyName) = "valid"
         /\ Outcome(kCssCriticalImagesPropertyName) = "not_found"
         /\ QueryStep(d) )
       => /\ crashed' = "no"
          /\ info'[d].set
          /\ info'[d].html_critical_images
                = Ptr(WrittenSet(kCriticalImagesPropertyName))
          /\ info'[d].css_critical_images = NULL]_vars

\* C7 (as claimed): a counting lookup of a value written at T yields None and
\* adds exactly 1 to the expired counter when TTL < now - T, and yields
\* Some(deserialized set) and adds exactly 1 to the valid counter when
\* TTL >= now - T; the other counters stay as they are.
C7_Expiration ==
  [][\A d \in Drivers :
       (CountingFirstQuery(d) /\ Count("not_found") = 0 /\ QueryStep(d)) =>
         /\ crashed' = "no"
         /\ info'[d].set
         /\ \A n \in PropertyNames :
              SubValue(info'[d], n) =
                (IF Outcome(n) = "expired" THEN NULL
                 ELSE Ptr(InsertTokens({}, pcache[n].value)))
         /\ statistics' =
              [critical_images_valid_count |->
                 statistics.critical_images_valid_count + Count("valid"),
               critical_images_expired_count |->
                 statistics.critical_images_expired_count + Count("expired"),
               critical_images_not_found_count |->
                 statistics.critical_images_not_found_count]]_vars

\* C8 (as claimed): a counting lookup of a property that was never written
\* yields None and adds exactly 1 to the not-found counter; the valid and
\* expired counters stay as they are.
C8_Absence ==
  [][\A d \in Drivers :
       (CountingFirstQuery(d) /\ Count("not_found") = 2 /\ QueryStep(d)) =>
         /\ crashed' = "no"
         /\ info'[d].set
         /\ info'[d].html_critical_images = NULL
         /\ info'[d].css_critical_images = NULL
         /\ statistics' =
              [statistics EXCEPT !.critical_images_not_found_count = @ + 2]]_vars

\* C9: the writer returns true exactly when store, page and cohort are
\* available and one of the two sets is given; when it returns false no
\* property has been changed.
C9_WriterResult ==
  \A page \in BOOLEAN, cache \in BOOLEAN,
     h \in PtrsTo(InputSets), c \in PtrsTo(InputSets) :
    LET w == UpdateCriticalImagesCacheEntry(page, cache, h, c)
    IN /\ w.result = (cache /\ page /\ cohort_present /\ (h # NULL \/ c # NULL))
       /\ ~w.result => w.pcache = pcache

C9_Witness ==
  /\ pcache[kCriticalImagesPropertyName].has_value
  /\ pcache[kCriticalImagesPropertyName].write_timestamp_ms = 1
  /\ ~pcache[kCssCriticalImagesPropertyName].has_value
  /\ UpdateCriticalImagesCacheEntry(TRUE, TRUE, NULL, NULL).result = FALSE
  /\ UpdateCriticalImagesCacheEntry(TRUE, TRUE, NULL, Ptr({})).result = TRUE

\* C10: once the driver has its info, IsHtmlCriticalImage(image) holds exactly
\* when the HTML sub-value is a set that contains image, IsCssCriticalImage
\* likewise; with a NULL sub-value the answer is false for every image, and
\* the query does not end the process.
C10_Membership ==
  \A d \in Drivers, x \in Urls :
    (crashed = "no" /\ info[d].set) =>
      /\ IsHtmlCriticalImage(x, d).u.crash = "no"
      /\ IsCssCriticalImage(x, d).u.crash = "no"
      /\ IsHtmlCriticalImage(x, d).result =
            (\E S \in InputSets : info[d].html_critical_images = Ptr(S) /\ x \in S)
      /\ IsCssCriticalImage(x, d).result =
            (\E S \in InputSets : info[d].css_critical_images = Ptr(S) /\ x \in S)

C10_Witness ==
  /\ info["d1"].set
  /\ info["d1"].html_critical_images = Ptr({<<97>>})
  /\ info["d1"].css_critical_images = NULL
  /\ IsHtmlCriticalImage(<<97>>, "d1").result
  /\ ~IsHtmlCriticalImage(<<98>>, "d1").result
  /\ ~IsCssCriticalImage(<<97>>, "d1").result

\* The sum of the three counters.
SumStats ==
  statistics.critical_images_valid_count
    + statistics.critical_images_expired_count
    + statistics.critical_images_not_found_count

\* C11: a request whose flushing-early flag is set changes none of the three
\* counters, whatever the properties hold (a step that changes a counter is
\* the lookup of a driver that is not flushing early), and its first query
\* does to the snapshot exactly what the first query of a full render does.
C11_NoCountingWhenFlushingEarly ==
  /\ [](\A d \in Drivers :
          flushing_early[d] =>
            /\ UpdateCriticalImagesSetInDriver(d).stats = statistics
            /\ \A e \in Drivers :
                 ( /\ ~flushing_early[e]
                   /\ ~info[d].set /\ ~info[e].set
                   /\ property_page[d] = property_page[e] )
                 => /\ UpdateCriticalImagesSetInDriver(d).info
                         = UpdateCriticalImagesSetInDriver(e).info
                    /\ UpdateCriticalImagesSetInDriver(d).crash
                         = UpdateCriticalImagesSetInDriver(e).crash)
  /\ [][statistics' # statistics =>
          \E e \in Drivers : ~flushing_early[e] /\ lookups'[e] # lookups[e]]_vars

C11_Witness ==
  /\ flushing_early["d1"]
  /\ info["d1"].set
  /\ \A n \in PropertyNames : lookups["d1"][n] = 1 /\ pcache[n].has_value
  /\ statistics = ZeroStats

\* C12 (as claimed): every counting read of a property adds exactly 1 to
\* exactly one counter and a request adds at most 2 in all, so that across any
\* interleaving the sum of the three counters is twice the number of requests
\* that are not flushing early and populated their snapshot from the store.
C12_OnceOnlyAccounting ==
  SumStats = 2 * Cardinality({d \in Drivers :
                                /\ ~flushing_early[d]
                                /\ info[d].set
                                /\ lookups[d][kCriticalImagesPropertyName] = 1})

\* The property of the other side.
OtherProperty(n) ==
  IF n = kCriticalImagesPropertyName THEN kCssCriticalImagesPropertyName
  ELSE kCriticalImagesPropertyName

\* The writer called with the set given for property n only.
WriteOneSide(page, cache, n, given) ==
  IF n = kCriticalImagesPropertyName
  THEN UpdateCriticalImagesCacheEntry(page, cache, given, NULL)
  ELSE UpdateCriticalImagesCacheEntry(page, cache, NULL, given)

\* What the reader extracts from a property value into an empty set.
ReadBack(property_value) ==
  ExtractCriticalImagesSet("d1", property_value, FALSE, Ptr({}), statistics)

QueryEffect(d) == UpdateCriticalImagesSetInDriver(d)

\* C14: a setter called on a driver without info installs an info that holds
\* the given set on its side and NULL on the other, looking nothing up and
\* counting nothing; from then on no query of the driver looks up a property
\* or changes a counter, and a side that is NULL answers FALSE for every image
\* and stays NULL until its own setter is called, whatever the cache holds.
C14_SetterBeforeAnyRead ==
  /\ [][\A d \in Drivers, p \in PtrsTo(InputSets) :
          /\ (~info[d].set /\ SetHtmlCriticalImages(d, p)) =>
                /\ info'[d] = [set |-> TRUE, html_critical_images |-> p,
                                css_critical_images |-> NULL]
                /\ lookups' = lookups /\ statistics' = statistics
          /\ (~info[d].set /\ SetCssCriticalImages(d, p)) =>
                /\ info'[d] = [set |-> TRUE, html_critical_images |-> NULL,
                                css_critical_images |-> p]
                /\ lookups' = lookups /\ statistics' = statistics]_vars
  /\ [](\A d \in Drivers :
          info[d].set =>
            /\ QueryEffect(d) = Updated("no", info[d], statistics, lookups[d], 0)
            /\ info[d].html_critical_images = NULL =>
                  \A x \in Urls : ~IsHtmlCriticalImage(x, d).result
            /\ info[d].css_critical_images = NULL =>
                  \A x \in Urls : ~IsCssCriticalImage(x, d).result)
  /\ [][\A d \in Drivers :
          /\ (info[d].set /\ info[d].css_critical_images = NULL
                 /\ info'[d].css_critical_images # NULL) =>
                \E p \in PtrsTo(InputSets) : SetCssCriticalImages(d, p)
          /\ (info[d].set /\ info[d].html_critical_images = NULL
                 /\ info'[d].html_critical_images # NULL) =>
                \E p \in PtrsTo(InputSets) : SetHtmlCriticalImages(d, p)]_vars

C14_Witness ==
  /\ crashed = "no"
  /\ info["d1"] = [set |-> TRUE, html_critical_images |-> Ptr({<<97>>}),
                   css_critical_images |-> NULL]
  /\ installs["d1"] = 1
  /\ \A n \in PropertyNames : lookups["d1"][n] = 0
  /\ statistics = ZeroStats
  /\ property_page["d1"] /\ cohort_present
  /\ Outcome(kCssCriticalImagesPropertyName) = "valid"
  /\ pcache[kCssCriticalImagesPropertyName].value = <<97>>
  /\ ~IsCssCriticalImage(<<97>>, "d1").result

\* A setter of driver d is called.
SetterStep(d) ==
  \E p \in PtrsTo(InputSets) :
    SetHtmlCriticalImages(d, p) \/ SetCssCriticalImages(d, p)

\* C15: a driver starts without info; a query or setter of the driver that
\* returns leaves it with an info; a driver that has an info keeps having one
\* through every step, and no second info is ever installed in a driver.
C15_RequestStateMachine ==
  /\ \A d \in Drivers : info[d] = NoInfo /\ installs[d] = 0
  /\ [](\A d \in Drivers :
          /\ installs[d] <= 1
          /\ info[d].set <=> installs[d] = 1
          /\ QueryEffect(d).crash = "no" => QueryEffect(d).info.set)
  /\ [][\A d \in Drivers :
          /\ info[d].set => info'[d].set /\ installs'[d] = installs[d]
          /\ info'[d].set \/ ~SetterStep(d)
          /\ (info'[d] # info[d] /\ lookups'[d] # lookups[d]) =>
                info'[d] = QueryEffect(d).info]_vars

C15_Witness ==
  /\ crashed = "no"
  /\ info["d1"] = InfoOf(CriticalImagesInfo)
  /\ installs["d1"] = 1
  /\ \A n \in PropertyNames : lookups["d1"][n] = 1
  /\ pcache[kCriticalImagesPropertyName].has_value
  /\ now > pcache[kCriticalImagesPropertyName].write_timestamp_ms

\* C16: with two drivers served in any interleaving, the info of a driver
\* changes only in that driver's own first query or in one of its own setters,
\* and the answers of a driver that has an info are determined by that info
\* alone; so no query, setter or cache write of the other driver changes them.
C16_CrossRequestIsolation ==
  /\ [][\A d \in Drivers :
          info'[d] # info[d] =>
            \/ SetterStep(d)
            \/ ~info[d].set /\ QueryStep(d)]_vars
  /\ [](\A d \in Drivers :
          info[d].set =>
            \A x \in Urls :
              /\ IsHtmlCriticalImage(x, d).result
                    <=> ( /\ info[d].html_critical_images # NULL
                          /\ x \in Deref(info[d].html_critical_images) )
              /\ IsCssCriticalImage(x, d).result
                    <=> ( /\ info[d].css_critical_images # NULL
                          /\ x \in Deref(info[d].css_critical_images) ))

C16_Witness ==
  /\ crashed = "no"
  /\ info["d1"] = [set |-> TRUE, html_critical_images |-> Ptr({<<97>>}),
                   css_critical_images |-> NULL]
  /\ info["d2"] = InfoOf(CriticalImagesInfo)
  /\ \A n \in PropertyNames : lookups["d1"][n] = 0 /\ lookups["d2"][n] = 1
  /\ pcache[kCriticalImagesPropertyName].has_value
  /\ IsHtmlCriticalImage(<<97>>, "d1").result
  /\ ~IsHtmlCriticalImage(<<97>>, "d2").result

\* The driver's page and the cohort are both there.
StoreAvailable(d) == property_page[d] /\ cohort_present

C18_UnavailableStore ==
  /\ [][\A d \in Drivers :
          (~info[d].set /\ ~StoreAvailable(d) /\ QueryStep(d)) =>
            /\ crashed' = "no"
            /\ info'[d] = InfoOf(CriticalImagesInfo)
            /\ lookups' = lookups /\ statistics' = statistics]_vars
  /\ [](\A d \in Drivers :
          /\ (crashed = "no" /\ ~info[d].set /\ ~StoreAvailable(d)) =>
                /\ QueryEffect(d) = Updated("no", InfoOf(CriticalImagesInfo),
                                             statistics, lookups[d], 1)
                /\ \A x \in Urls : /\ ~IsHtmlCriticalImage(x, d).result
                                     /\ ~IsCssCriticalImage(x, d).result
          /\ (info[d] = InfoOf(CriticalImagesInfo) /\ StoreAvailable(d)) =>
                /\ QueryEffect(d).lookups = lookups[d]
                /\ QueryEffect(d).stats = statistics
                /\ \A x \in Urls : /\ ~IsHtmlCriticalImage(x, d).result
                                     /\ ~IsCssCriticalImage(x, d).result)

C18_Witness ==
  /\ crashed = "no"
  /\ info["d1"] = InfoOf(CriticalImagesInfo)
  /\ installs["d1"] = 1
  /\ \A n \in PropertyNames : lookups["d1"][n] = 0
  /\ statistics = ZeroStats
  /\ StoreAvailable("d1")
  /\ \A n \in PropertyNames : Outcome(n) = "valid" /\ pcache[n].value = <<97>>
  /\ \A x \in Urls : ~IsHtmlCriticalImage(x, "d1").result

====
